---- MODULE Spec2Model ----
(***************************************************************************)
(* Model of bin-it (src/src/lib.rs): BinaryWriter appends typed values to  *)
(* a byte buffer, BinaryReader decodes them from a byte slice at a cursor. *)
(*                                                                         *)
(* Representation of values.  TLC's integers are 32 bits wide, so the      *)
(* wider machine integers are kept as little-endian sequences of 16-bit    *)
(* limbs, which keeps every width and every wrap-around exact:             *)
(*   u8, u16          a number in 0..255, 0..65535                         *)
(*   i8, i16          a number in -128..127, -32768..32767                 *)
(*   u32, u64         <<l0, l1>>, <<l0, l1, l2, l3>>, limbs in 0..65535    *)
(*   i32, i64         the same, the top limb signed (-32768..32767)        *)
(*   f32, f64         the IEEE-754 bit pattern, as a u32 / u64             *)
(*   bool             TRUE / FALSE                                         *)
(*   &str, String     the sequence of Unicode scalar values                *)
(*   usize            a u32-ranged count is a u32 limb pair (usize is 64   *)
(*                    bits wide: cursor + size cannot wrap); buffer        *)
(*                    lengths and the cursor are plain numbers             *)
(***************************************************************************)
EXTENDS Integers, Sequences, FiniteSets, TLC

VARIABLES wdata, log, lastw, phase, mode, rdata, cursor, nread, last

vars == <<wdata, log, lastw, phase, mode, rdata, cursor, nread, last>>

-----------------------------------------------------------------------------
(* Bounds of the model.                                                    *)

\* values appended by one writer before its buffer is taken
MaxWrites == 2
\* length of the arbitrary payloads a reader is constructed over
MaxPayload == 2
\* length of the uniform payloads a reader is constructed over
MaxRun == 8

-----------------------------------------------------------------------------
(* Sequence helpers.                                                       *)

RECURSIVE Flatten(_)
Flatten(ss) == IF ss = <<>> THEN <<>> ELSE Head(ss) \o Flatten(Tail(ss))

Slice(s, from, to) == [i \in 1..(to - from) |-> s[from + i]]

RECURSIVE SeqsUpTo(_, _)
SeqsUpTo(S, n) ==
  IF n = 0 THEN {<<>>}
  ELSE LET shorter == SeqsUpTo(S, n - 1)
       IN  shorter \cup {Append(s, x) : s \in {t \in shorter : Len(t) = n - 1}, x \in S}

Repeat(b, n) == [i \in 1..n |-> b]

-----------------------------------------------------------------------------
(* Integer casts and byte conversions of the standard library, as used by  *)
(* the writer and the reader.                                              *)

\* value as u8, for an i8
i8_as_u8(value) == value % 256

\* byte as i8
u8_as_i8(byte) == IF byte >= 128 THEN byte - 256 ELSE byte

\* v as i16 / v as i32 / v as i64: the same bits, read as two's complement
u16_as_i16(v) == IF v >= 32768 THEN v - 65536 ELSE v

u32_as_i32(v) == <<v[1], u16_as_i16(v[2])>>

u64_as_i64(v) == <<v[1], v[2], v[3], u16_as_i16(v[4])>>

\* len as u32, for a usize within the model's range (keeps the low 32 bits)
usize_as_u32(n) == <<n % 65536, (n \div 65536) % 65536>>

\* mutant: most significant byte first
u16_to_be_bytes(value) == <<value \div 256, value % 256>>

u16_to_le_bytes(value) == <<value % 256, value \div 256>>

u32_to_le_bytes(value) == u16_to_le_bytes(value[1]) \o u16_to_le_bytes(value[2])

u64_to_le_bytes(value) ==
  u16_to_le_bytes(value[1]) \o u16_to_le_bytes(value[2])
    \o u16_to_le_bytes(value[3]) \o u16_to_le_bytes(value[4])

i16_to_le_bytes(value) == u16_to_le_bytes(value % 65536)

i32_to_le_bytes(value) == u32_to_le_bytes(<<value[1], value[2] % 65536>>)

i64_to_le_bytes(value) ==
  u64_to_le_bytes(<<value[1], value[2], value[3], value[4] % 65536>>)

\* f32::to_le_bytes / f64::to_le_bytes: the bytes of the bit pattern
f32_to_le_bytes(value) == u32_to_le_bytes(value)

f64_to_le_bytes(value) == u64_to_le_bytes(value)

u16_from_le_bytes(bytes) == bytes[1] + 256 * bytes[2]

u32_from_le_bytes(bytes) ==
  <<u16_from_le_bytes(Slice(bytes, 0, 2)), u16_from_le_bytes(Slice(bytes, 2, 4))>>

u64_from_le_bytes(bytes) ==
  <<u16_from_le_bytes(Slice(bytes, 0, 2)), u16_from_le_bytes(Slice(bytes, 2, 4)),
    u16_from_le_bytes(Slice(bytes, 4, 6)), u16_from_le_bytes(Slice(bytes, 6, 8))>>

f32_from_le_bytes(bytes) == u32_from_le_bytes(bytes)

f64_from_le_bytes(bytes) == u64_from_le_bytes(bytes)

-----------------------------------------------------------------------------
(* UTF-8: str::as_bytes and String::from_utf8.                             *)

EncodeChar(c) ==
  IF c < 128 THEN <<c>>
  ELSE IF c < 2048 THEN <<192 + (c \div 64), 128 + (c % 64)>>
  ELSE IF c < 65536
    THEN <<224 + (c \div 4096), 128 + ((c \div 64) % 64), 128 + (c % 64)>>
  ELSE <<240 + (c \div 262144), 128 + ((c \div 4096) % 64),
         128 + ((c \div 64) % 64), 128 + (c % 64)>>

\* value.as_bytes()
as_bytes(value) == Flatten([i \in 1..Len(value) |-> EncodeChar(value[i])])

IsCont(b) == b >= 128 /\ b <= 191

\* the width of the well-formed sequence that starts at bytes[i], 0 if none
Utf8Width(bytes, i) ==
  LET n  == Len(bytes)
      b0 == bytes[i]
      b1 == bytes[i + 1]
      b2 == bytes[i + 2]
      b3 == bytes[i + 3]
  IN  IF b0 < 128 THEN 1
      ELSE IF b0 >= 194 /\ b0 <= 223
        THEN IF i + 1 <= n /\ IsCont(b1) THEN 2 ELSE 0
      ELSE IF b0 >= 224 /\ b0 <= 239
        THEN IF /\ i + 2 <= n
                /\ \/ b0 = 224 /\ b1 >= 160 /\ b1 <= 191
                   \/ b0 >= 225 /\ b0 <= 236 /\ IsCont(b1)
                   \/ b0 = 237 /\ b1 >= 128 /\ b1 <= 159
                   \/ b0 >= 238 /\ IsCont(b1)
                /\ IsCont(b2)
             THEN 3 ELSE 0
      ELSE IF b0 >= 240 /\ b0 <= 244
        THEN IF /\ i + 3 <= n
                /\ \/ b0 = 240 /\ b1 >= 144 /\ b1 <= 191
                   \/ b0 >= 241 /\ b0 <= 243 /\ IsCont(b1)
                   \/ b0 = 244 /\ b1 >= 128 /\ b1 <= 143
                /\ IsCont(b2)
                /\ IsCont(b3)
             THEN 4 ELSE 0
      ELSE 0

DecodeChar(bytes, i, w) ==
  IF w = 1 THEN bytes[i]
  ELSE IF w = 2 THEN (bytes[i] - 192) * 64 + (bytes[i + 1] - 128)
  ELSE IF w = 3
    THEN (bytes[i] - 224) * 4096 + (bytes[i + 1] - 128) * 64 + (bytes[i + 2] - 128)
  ELSE (bytes[i] - 240) * 262144 + (bytes[i + 1] - 128) * 4096
         + (bytes[i + 2] - 128) * 64 + (bytes[i + 3] - 128)

RECURSIVE Utf8Scan(_, _, _)
Utf8Scan(bytes, i, acc) ==
  IF i > Len(bytes) THEN [ok |-> TRUE, val |-> acc]
  ELSE LET w == Utf8Width(bytes, i)
       IN  IF w = 0 THEN [ok |-> FALSE, val |-> <<>>]
           ELSE Utf8Scan(bytes, i + w, Append(acc, DecodeChar(bytes, i, w)))

\* String::from_utf8(bytes)
from_utf8(bytes) == Utf8Scan(bytes, 1, <<>>)

-----------------------------------------------------------------------------
(* BinaryWriter: each operation maps the buffer before the call to the     *)
(* buffer after it.                                                        *)

BinaryWriter_new == <<>>

\* mutant: inserts at the front of the buffer
write_u8_front(data, value) == <<value>> \o data

write_u8(data, value) == Append(data, value)

write_u16(data, value) == data \o u16_to_le_bytes(value)

write_u32(data, value) == data \o u32_to_le_bytes(value)

write_u64(data, value) == data \o u64_to_le_bytes(value)

write_i8(data, value) == Append(data, i8_as_u8(value))

write_i16(data, value) == data \o i16_to_le_bytes(value)

write_i32(data, value) == data \o i32_to_le_bytes(value)

write_i64(data, value) == data \o i64_to_le_bytes(value)

write_f32(data, value) == data \o f32_to_le_bytes(value)

write_f64(data, value) == data \o f64_to_le_bytes(value)

write_bool(data, value) == Append(data, IF value THEN 1 ELSE 0)

\* mutant: the prefix counts code points
write_string_chars(data, value) ==
  write_u32(data, usize_as_u32(Len(value))) \o as_bytes(value)

write_string(data, value) ==
  LET bytes == as_bytes(value)
  IN  write_u32(data, usize_as_u32(Len(bytes))) \o bytes

write_vec_u8(data, value) == write_u32(data, usize_as_u32(Len(value))) \o value

\* the element write of each write_vec_<kind>
write_elem(kind, data, v) ==
  CASE kind = "u16" -> write_u16(data, v)
    [] kind = "u32" -> write_u32(data, v)
    [] kind = "u64" -> write_u64(data, v)
    [] kind = "i8" -> write_i8(data, v)
    [] kind = "i16" -> write_i16(data, v)
    [] kind = "i32" -> write_i32(data, v)
    [] kind = "i64" -> write_i64(data, v)
    [] kind = "f32" -> write_f32(data, v)
    [] kind = "f64" -> write_f64(data, v)
    [] kind = "string" -> write_string(data, v)

\* for &v in value { self.write_<kind>(v) }: after[i] is the buffer after i elements
WriteEach(data, value, kind) ==
  LET after[i \in 0..Len(value)] ==
        IF i = 0 THEN data ELSE write_elem(kind, after[i - 1], value[i])
  IN  after[Len(value)]

write_vec_u16(data, value) ==
  WriteEach(write_u32(data, usize_as_u32(Len(value))), value, "u16")

write_vec_u32(data, value) ==
  WriteEach(write_u32(data, usize_as_u32(Len(value))), value, "u32")

write_vec_u64(data, value) ==
  WriteEach(write_u32(data, usize_as_u32(Len(value))), value, "u64")

write_vec_i8(data, value) ==
  WriteEach(write_u32(data, usize_as_u32(Len(value))), value, "i8")

write_vec_i16(data, value) ==
  WriteEach(write_u32(data, usize_as_u32(Len(value))), value, "i16")

write_vec_i32(data, value) ==
  WriteEach(write_u32(data, usize_as_u32(Len(value))), value, "i32")

write_vec_i64(data, value) ==
  WriteEach(write_u32(data, usize_as_u32(Len(value))), value, "i64")

write_vec_f32(data, value) ==
  WriteEach(write_u32(data, usize_as_u32(Len(value))), value, "f32")

write_vec_f64(data, value) ==
  WriteEach(write_u32(data, usize_as_u32(Len(value))), value, "f64")

write_vec_string(data, value) ==
  WriteEach(write_u32(data, usize_as_u32(Len(value))), value, "string")

-----------------------------------------------------------------------------
(* BinaryReader.  self is [data, cursor]; a read returns the reader after  *)
(* the call, the Result it returned and the buffer offsets it read.        *)

Ok(v) == [tag |-> "Ok", val |-> v]

Err(msg) == [tag |-> "Err", val |-> msg]

\* the process does not return from the call: panic!, or allocation failure
Abort(msg) == [tag |-> "Abort", val |-> msg]

Ret(self, res, touched) == [self |-> self, res |-> res, touched |-> touched]

BinaryReader_new(data) == [data |-> data, cursor |-> 0]

\* a fixed size, as a usize
USize(n) == <<n, 0>>

\* self.cursor + size > self.data.len(): size is a u32-ranged usize (two limbs);
\* a size with a non-zero high limb exceeds every buffer length of the model
ensure_available(self, size) ==
  IF size[2] > 0 \/ self.cursor + size[1] > Len(self.data)
    THEN Err("Unexpected end of data")
    ELSE Ok(<<>>)

\* &self.data[self.cursor..self.cursor + n]
Bytes(self, n) == Slice(self.data, self.cursor, self.cursor + n)

Offsets(self, n) == self.cursor..(self.cursor + n - 1)

Advance(self, n) == [self EXCEPT !.cursor = @ + n]

read_u8(self) ==
  LET avail == ensure_available(self, USize(1))
  IN  IF avail.tag = "Err" THEN Ret(self, avail, {})
      ELSE Ret(Advance(self, 1), Ok(self.data[self.cursor + 1]), Offsets(self, 1))

\* mutant: advances past one of the two bytes read
read_u16_short(self) ==
  LET avail == ensure_available(self, USize(2))
  IN  IF avail.tag = "Err" THEN Ret(self, avail, {})
      ELSE Ret(Advance(self, 1), Ok(u16_from_le_bytes(Bytes(self, 2))), Offsets(self, 2))

read_u16(self) ==
  LET avail == ensure_available(self, USize(2))
  IN  IF avail.tag = "Err" THEN Ret(self, avail, {})
      ELSE Ret(Advance(self, 2), Ok(u16_from_le_bytes(Bytes(self, 2))), Offsets(self, 2))

read_u32(self) ==
  LET avail == ensure_available(self, USize(4))
  IN  IF avail.tag = "Err" THEN Ret(self, avail, {})
      ELSE Ret(Advance(self, 4), Ok(u32_from_le_bytes(Bytes(self, 4))), Offsets(self, 4))

read_u64(self) ==
  LET avail == ensure_available(self, USize(8))
  IN  IF avail.tag = "Err" THEN Ret(self, avail, {})
      ELSE Ret(Advance(self, 8), Ok(u64_from_le_bytes(Bytes(self, 8))), Offsets(self, 8))

read_i8(self) ==
  LET avail == ensure_available(self, USize(1))
  IN  IF avail.tag = "Err" THEN Ret(self, avail, {})
      ELSE Ret(Advance(self, 1), Ok(u8_as_i8(self.data[self.cursor + 1])), Offsets(self, 1))

\* Result::map: the closure runs on Ok only
read_i16(self) ==
  LET r == read_u16(self)
  IN  IF r.res.tag = "Ok" THEN Ret(r.self, Ok(u16_as_i16(r.res.val)), r.touched) ELSE r

read_i32(self) ==
  LET r == read_u32(self)
  IN  IF r.res.tag = "Ok" THEN Ret(r.self, Ok(u32_as_i32(r.res.val)), r.touched) ELSE r

read_i64(self) ==
  LET r == read_u64(self)
  IN  IF r.res.tag = "Ok" THEN Ret(r.self, Ok(u64_as_i64(r.res.val)), r.touched) ELSE r

read_f32(self) ==
  LET avail == ensure_available(self, USize(4))
  IN  IF avail.tag = "Err" THEN Ret(self, avail, {})
      ELSE Ret(Advance(self, 4), Ok(f32_from_le_bytes(Bytes(self, 4))), Offsets(self, 4))

read_f64(self) ==
  LET avail == ensure_available(self, USize(8))
  IN  IF avail.tag = "Err" THEN Ret(self, avail, {})
      ELSE Ret(Advance(self, 8), Ok(f64_from_le_bytes(Bytes(self, 8))), Offsets(self, 8))

read_bool(self) ==
  LET r == read_u8(self)
  IN  IF r.res.tag # "Ok" THEN r
      ELSE IF r.res.val = 0 THEN Ret(r.self, Ok(FALSE), r.touched)
      ELSE IF r.res.val = 1 THEN Ret(r.self, Ok(TRUE), r.touched)
      ELSE Ret(r.self, Abort("Invalid boolean value"), r.touched)

\* mutant: leaves the cursor at the start of the payload
read_string_no_advance(self) ==
  LET r == read_u32(self)
  IN  IF r.res.tag # "Ok" THEN r
      ELSE LET length == r.res.val
               avail  == ensure_available(r.self, length)
           IN  IF avail.tag = "Err" THEN Ret(r.self, avail, r.touched)
               ELSE LET n       == length[1]
                        decoded == from_utf8(Bytes(r.self, n))
                    IN  Ret(r.self,
                            IF decoded.ok THEN Ok(decoded.val)
                                          ELSE Err("invalid utf-8 sequence"),
                            r.touched \cup Offsets(r.self, n))

\* mutant: validates the bytes before advancing past them
read_string_validate_first(self) ==
  LET r == read_u32(self)
  IN  IF r.res.tag # "Ok" THEN r
      ELSE LET length == r.res.val
               avail  == ensure_available(r.self, length)
           IN  IF avail.tag = "Err" THEN Ret(r.self, avail, r.touched)
               ELSE LET n       == length[1]
                        decoded == from_utf8(Bytes(r.self, n))
                    IN  IF decoded.ok
                          THEN Ret(Advance(r.self, n), Ok(decoded.val),
                                   r.touched \cup Offsets(r.self, n))
                          ELSE Ret(r.self, Err("invalid utf-8 sequence"),
                                   r.touched \cup Offsets(r.self, n))

read_string(self) ==
  LET r == read_u32(self)
  IN  IF r.res.tag # "Ok" THEN r
      ELSE LET length == r.res.val
               avail  == ensure_available(r.self, length)
           IN  IF avail.tag = "Err" THEN Ret(r.self, avail, r.touched)
               ELSE LET n       == length[1]
                        decoded == from_utf8(Bytes(r.self, n))
                    IN  Ret(Advance(r.self, n),
                            IF decoded.ok THEN Ok(decoded.val)
                                          ELSE Err("invalid utf-8 sequence"),
                            r.touched \cup Offsets(r.self, n))

read_vec_u8(self) ==
  LET r == read_u32(self)
  IN  IF r.res.tag # "Ok" THEN r
      ELSE LET length == r.res.val
               avail  == ensure_available(r.self, length)
           IN  IF avail.tag = "Err" THEN Ret(r.self, avail, r.touched)
               ELSE LET n == length[1]
                    IN  Ret(Advance(r.self, n), Ok(Bytes(r.self, n)),
                            r.touched \cup Offsets(r.self, n))

\* size_of::<T>() of the element types (String is three words on a 64-bit target)
SizeOf(kind) ==
  CASE kind \in {"i8"} -> 1
    [] kind \in {"u16", "i16"} -> 2
    [] kind \in {"u32", "i32", "f32"} -> 4
    [] kind \in {"u64", "i64", "f64"} -> 8
    [] kind = "string" -> 24

\* Vec::with_capacity(length) reserves length * size_of::<T>() bytes before any
\* element is read; heap is what the allocator can still supply, in units of
\* 65536 bytes.  No allocation for a zero capacity; a request the allocator
\* cannot serve ends the process (alloc::handle_alloc_error).
with_capacity(length, kind, heap) ==
  LET low   == length[1] * SizeOf(kind)
      units == length[2] * SizeOf(kind) + (low \div 65536)
                 + (IF low % 65536 > 0 THEN 1 ELSE 0)
  IN  IF units > heap THEN Abort("memory allocation failed") ELSE Ok(<<>>)

\* the element read of each read_vec_<kind>
read_elem(kind, self) ==
  CASE kind = "u16" -> read_u16(self)
    [] kind = "u32" -> read_u32(self)
    [] kind = "u64" -> read_u64(self)
    [] kind = "i8" -> read_i8(self)
    [] kind = "i16" -> read_i16(self)
    [] kind = "i32" -> read_i32(self)
    [] kind = "i64" -> read_i64(self)
    [] kind = "f32" -> read_f32(self)
    [] kind = "f64" -> read_f64(self)
    [] kind = "string" -> read_string(self)

Dec(n) == IF n[1] > 0 THEN <<n[1] - 1, n[2]>> ELSE <<65535, n[2] - 1>>

\* for _ in 0..length { vec.push(self.read_<kind>()?); } Ok(vec)
RECURSIVE ReadEach(_, _, _, _, _)
ReadEach(self, remaining, kind, vec, touched) ==
  IF remaining = <<0, 0>> THEN Ret(self, Ok(vec), touched)
  ELSE LET r == read_elem(kind, self)
       IN  IF r.res.tag # "Ok" THEN Ret(r.self, r.res, touched \cup r.touched)
           ELSE ReadEach(r.self, Dec(remaining), kind, Append(vec, r.res.val),
                         touched \cup r.touched)

\* mutant: the loop runs from 1, one element short
ReadVecFromOne(self, kind, heap) ==
  LET r == read_u32(self)
  IN  IF r.res.tag # "Ok" THEN r
      ELSE LET length == r.res.val
               vec    == with_capacity(length, kind, heap)
           IN  IF vec.tag = "Abort" THEN Ret(r.self, vec, r.touched)
               ELSE ReadEach(r.self, IF length = <<0, 0>> THEN length ELSE Dec(length),
                             kind, <<>>, r.touched)

\* mutant: checks the declared payload of fixed-width elements before the loop
ReadVecChecked(self, kind, heap) ==
  LET r == read_u32(self)
  IN  IF r.res.tag # "Ok" THEN r
      ELSE LET length == r.res.val
               vec    == with_capacity(length, kind, heap)
               bytes  == length[1] * SizeOf(kind)
           IN  IF vec.tag = "Abort" THEN Ret(r.self, vec, r.touched)
               ELSE IF kind # "string" /\ (length[2] > 0 \/ r.self.cursor + bytes > Len(r.self.data))
                 THEN Ret(r.self, Err("Unexpected end of data"), r.touched)
               ELSE ReadEach(r.self, length, kind, <<>>, r.touched)

\* the body shared by read_vec_u16 .. read_vec_string
ReadVec(self, kind, heap) ==
  LET r == read_u32(self)
  IN  IF r.res.tag # "Ok" THEN r
      ELSE LET length == r.res.val
               vec    == with_capacity(length, kind, heap)
           IN  IF vec.tag = "Abort" THEN Ret(r.self, vec, r.touched)
               ELSE ReadEach(r.self, length, kind, <<>>, r.touched)

read_vec_u16(self, heap) == ReadVec(self, "u16", heap)

read_vec_u32(self, heap) == ReadVec(self, "u32", heap)

read_vec_u64(self, heap) == ReadVec(self, "u64", heap)

read_vec_i8(self, heap) == ReadVec(self, "i8", heap)

read_vec_i16(self, heap) == ReadVec(self, "i16", heap)

read_vec_i32(self, heap) == ReadVec(self, "i32", heap)

read_vec_i64(self, heap) == ReadVec(self, "i64", heap)

read_vec_f32(self, heap) == ReadVec(self, "f32", heap)

read_vec_f64(self, heap) == ReadVec(self, "f64", heap)

read_vec_string(self, heap) == ReadVec(self, "string", heap)

-----------------------------------------------------------------------------
(* The values the callers write, and the buffers readers are built over.   *)

U8List == <<0, 18, 255>>
U16List == <<0, 4660, 65535>>
\* 0, 0x12345678, u32::MAX
U32List == <<<<0, 0>>, <<22136, 4660>>, <<65535, 65535>>>>
\* 0, 0x0123456789ABCDEF, u64::MAX
U64List == <<<<0, 0, 0, 0>>, <<52719, 35243, 17767, 291>>, <<65535, 65535, 65535, 65535>>>>
I8List == <<-128, -2, 127>>
I16List == <<-32768, -2, 32767>>
\* i32::MIN, -2, i32::MAX
I32List == <<<<0, -32768>>, <<65534, -1>>, <<65535, 32767>>>>
\* i64::MIN, -2, i64::MAX
I64List == <<<<0, 0, 0, -32768>>, <<65534, 65535, 65535, -1>>, <<65535, 65535, 65535, 32767>>>>
\* the bits of 3.1415927, -0.0 and a NaN
F32List == <<<<4059, 16457>>, <<0, 32768>>, <<1, 32704>>>>
\* the bits of 2.718281828459045, -0.0 and a NaN
F64List == <<<<22377, 35604, 48906, 16389>>, <<0, 0, 0, 32768>>, <<1, 0, 0, 32760>>>>
BoolList == <<TRUE, FALSE>>
\* "", "Hi", "e-acute euro" (2- and 3-byte code points), "rocket sparkles" (4 and 3)
StringList == <<<<>>, <<72, 105>>, <<233, 8364>>, <<128640, 10024>>>>

Range(list) == {list[i] : i \in 1..Len(list)}

\* the sequences of one kind that are written: the empty one, and every value
\* of the kind in the order listed
VecsOf(list) == {<<>>, list}

ValuesOf(kind) ==
  CASE kind = "u8" -> Range(U8List)
    [] kind = "u16" -> Range(U16List)
    [] kind = "u32" -> Range(U32List)
    [] kind = "u64" -> Range(U64List)
    [] kind = "i8" -> Range(I8List)
    [] kind = "i16" -> Range(I16List)
    [] kind = "i32" -> Range(I32List)
    [] kind = "i64" -> Range(I64List)
    [] kind = "f32" -> Range(F32List)
    [] kind = "f64" -> Range(F64List)
    [] kind = "bool" -> Range(BoolList)
    [] kind = "string" -> Range(StringList)
    [] kind = "vec_u8" -> VecsOf(U8List)
    [] kind = "vec_u16" -> VecsOf(U16List)
    [] kind = "vec_u32" -> VecsOf(U32List)
    [] kind = "vec_u64" -> VecsOf(U64List)
    [] kind = "vec_i8" -> VecsOf(I8List)
    [] kind = "vec_i16" -> VecsOf(I16List)
    [] kind = "vec_i32" -> VecsOf(I32List)
    [] kind = "vec_i64" -> VecsOf(I64List)
    [] kind = "vec_f32" -> VecsOf(F32List)
    [] kind = "vec_f64" -> VecsOf(F64List)
    [] kind = "vec_string" -> VecsOf(StringList)

\* bytes of arbitrary input: 0 and 1 (false, true, small counts), a UTF-8 lead
\* byte (0xC3) and a continuation byte (0xA9); 0xC3 0xA9 is one code point
Alphabet == {0, 1, 195, 169}

\* a count or length prefix, or none; the longer ones are the count of a text
\* sequence followed by the length of its first element
Prefixes ==
  { <<>>, <<0, 0, 0, 0>>, <<1, 0, 0, 0>>, <<2, 0, 0, 0>>, <<255, 255, 255, 255>>,
    <<1, 0, 0, 0, 1, 0, 0, 0>>, <<2, 0, 0, 0, 1, 0, 0, 0>> }

\* every short payload, and longer uniform ones (room for 4- and 8-byte elements)
Payloads ==
  SeqsUpTo(Alphabet, MaxPayload) \cup {Repeat(b, n) : b \in {0, 1}, n \in 4..MaxRun}

Buffers == {p \o q : p \in Prefixes, q \in Payloads}

\* what the allocator can supply when a read reserves capacity, in units of
\* 65536 bytes: 16 GiB, or more than any request (128 GiB)
HeapChoices == {262144, 2097152}

-----------------------------------------------------------------------------
(* The state machine.  A writer appends values (phase "writing"), its      *)
(* buffer is taken ("taken") and a reader over it reads the values back    *)
(* with the kinds in the order written (mode "roundtrip"); or a reader is  *)
(* constructed over arbitrary bytes and used freely (mode "free").         *)

NoWrite == [pre |-> <<>>, kind |-> "none", val |-> <<>>]

NoRead == [op |-> "none", pre |-> 0, res |-> Ok(<<>>), touched |-> {}]

Init ==
  /\ wdata = BinaryWriter_new
  /\ log = <<>>
  /\ lastw = NoWrite
  /\ phase = "writing"
  /\ mode = "roundtrip"
  /\ rdata = <<>>
  /\ cursor = 0
  /\ nread = 0
  /\ last = NoRead

InitR ==
  /\ wdata = <<>>
  /\ log = <<>>
  /\ lastw = NoWrite
  /\ phase = "reading"
  /\ mode = "free"
  /\ \E data \in Buffers :
       /\ rdata = BinaryReader_new(data).data
       /\ cursor = BinaryReader_new(data).cursor
  /\ nread = 0
  /\ last = NoRead

\* one append: data is the buffer the operation leaves
DoWrite(kind, value, data) ==
  /\ phase = "writing"
  /\ Len(log) < MaxWrites
  /\ wdata' = data
  /\ log' = Append(log, [kind |-> kind, val |-> value])
  /\ lastw' = [pre |-> wdata, kind |-> kind, val |-> value]
  /\ UNCHANGED <<phase, mode, rdata, cursor, nread, last>>

WriteU8 == \E value \in ValuesOf("u8") : DoWrite("u8", value, write_u8(wdata, value))

WriteU16 == \E value \in ValuesOf("u16") : DoWrite("u16", value, write_u16(wdata, value))

WriteU32 == \E value \in ValuesOf("u32") : DoWrite("u32", value, write_u32(wdata, value))

WriteU64 == \E value \in ValuesOf("u64") : DoWrite("u64", value, write_u64(wdata, value))

WriteI8 == \E value \in ValuesOf("i8") : DoWrite("i8", value, write_i8(wdata, value))

WriteI16 == \E value \in ValuesOf("i16") : DoWrite("i16", value, write_i16(wdata, value))

WriteI32 == \E value \in ValuesOf("i32") : DoWrite("i32", value, write_i32(wdata, value))

WriteI64 == \E value \in ValuesOf("i64") : DoWrite("i64", value, write_i64(wdata, value))

WriteF32 == \E value \in ValuesOf("f32") : DoWrite("f32", value, write_f32(wdata, value))

WriteF64 == \E value \in ValuesOf("f64") : DoWrite("f64", value, write_f64(wdata, value))

WriteBool == \E value \in ValuesOf("bool") : DoWrite("bool", value, write_bool(wdata, value))

WriteString == \E value \in ValuesOf("string") : DoWrite("string", value, write_string(wdata, value))

WriteVecU8 ==
  \E value \in ValuesOf("vec_u8") : DoWrite("vec_u8", value, write_vec_u8(wdata, value))

WriteVecU16 ==
  \E value \in ValuesOf("vec_u16") : DoWrite("vec_u16", value, write_vec_u16(wdata, value))

WriteVecU32 ==
  \E value \in ValuesOf("vec_u32") : DoWrite("vec_u32", value, write_vec_u32(wdata, value))

WriteVecU64 ==
  \E value \in ValuesOf("vec_u64") : DoWrite("vec_u64", value, write_vec_u64(wdata, value))

WriteVecI8 ==
  \E value \in ValuesOf("vec_i8") : DoWrite("vec_i8", value, write_vec_i8(wdata, value))

WriteVecI16 ==
  \E value \in ValuesOf("vec_i16") : DoWrite("vec_i16", value, write_vec_i16(wdata, value))

WriteVecI32 ==
  \E value \in ValuesOf("vec_i32") : DoWrite("vec_i32", value, write_vec_i32(wdata, value))

WriteVecI64 ==
  \E value \in ValuesOf("vec_i64") : DoWrite("vec_i64", value, write_vec_i64(wdata, value))

WriteVecF32 ==
  \E value \in ValuesOf("vec_f32") : DoWrite("vec_f32", value, write_vec_f32(wdata, value))

WriteVecF64 ==
  \E value \in ValuesOf("vec_f64") : DoWrite("vec_f64", value, write_vec_f64(wdata, value))

WriteVecString ==
  \E value \in ValuesOf("vec_string") : DoWrite("vec_string", value, write_vec_string(wdata, value))

\* let data = writer.get_data(): the writer is consumed
GetData ==
  /\ phase = "writing"
  /\ phase' = "taken"
  /\ rdata' = wdata
  /\ UNCHANGED <<wdata, log, lastw, mode, cursor, nread, last>>

\* BinaryReader::new(&data)
NewReader ==
  /\ phase = "taken"
  /\ phase' = "reading"
  /\ rdata' = BinaryReader_new(rdata).data
  /\ cursor' = BinaryReader_new(rdata).cursor
  /\ UNCHANGED <<wdata, log, lastw, mode, nread, last>>

Self == [data |-> rdata, cursor |-> cursor]

\* one read: r is what the operation returned
DoRead(op, r) ==
  /\ phase = "reading"
  /\ mode = "free" \/ (nread < Len(log) /\ log[nread + 1].kind = op)
  /\ cursor' = r.self.cursor
  /\ last' = [op |-> op, pre |-> cursor, res |-> r.res, touched |-> r.touched]
  /\ phase' = IF r.res.tag = "Abort" THEN "aborted" ELSE phase
  /\ nread' = IF mode = "free" THEN nread ELSE nread + 1
  /\ UNCHANGED <<wdata, log, lastw, mode, rdata>>

ReadU8 == DoRead("u8", read_u8(Self))

ReadU16 == DoRead("u16", read_u16(Self))

ReadU32 == DoRead("u32", read_u32(Self))

ReadU64 == DoRead("u64", read_u64(Self))

ReadI8 == DoRead("i8", read_i8(Self))

ReadI16 == DoRead("i16", read_i16(Self))

ReadI32 == DoRead("i32", read_i32(Self))

ReadI64 == DoRead("i64", read_i64(Self))

ReadF32 == DoRead("f32", read_f32(Self))

ReadF64 == DoRead("f64", read_f64(Self))

ReadBool == DoRead("bool", read_bool(Self))

ReadString == DoRead("string", read_string(Self))

ReadVecU8 == DoRead("vec_u8", read_vec_u8(Self))

ReadVecU16 == \E heap \in HeapChoices : DoRead("vec_u16", read_vec_u16(Self, heap))

ReadVecU32 == \E heap \in HeapChoices : DoRead("vec_u32", read_vec_u32(Self, heap))

ReadVecU64 == \E heap \in HeapChoices : DoRead("vec_u64", read_vec_u64(Self, heap))

ReadVecI8 == \E heap \in HeapChoices : DoRead("vec_i8", read_vec_i8(Self, heap))

ReadVecI16 == \E heap \in HeapChoices : DoRead("vec_i16", read_vec_i16(Self, heap))

ReadVecI32 == \E heap \in HeapChoices : DoRead("vec_i32", read_vec_i32(Self, heap))

ReadVecI64 == \E heap \in HeapChoices : DoRead("vec_i64", read_vec_i64(Self, heap))

ReadVecF32 == \E heap \in HeapChoices : DoRead("vec_f32", read_vec_f32(Self, heap))

ReadVecF64 == \E heap \in HeapChoices : DoRead("vec_f64", read_vec_f64(Self, heap))

ReadVecString == \E heap \in HeapChoices : DoRead("vec_string", read_vec_string(Self, heap))

NextR ==
  \/ ReadU8
  \/ ReadU16
  \/ ReadU32
  \/ ReadU64
  \/ ReadI8
  \/ ReadI16
  \/ ReadI32
  \/ ReadI64
  \/ ReadF32
  \/ ReadF64
  \/ ReadBool
  \/ ReadString
  \/ ReadVecU8
  \/ ReadVecU16
  \/ ReadVecU32
  \/ ReadVecU64
  \/ ReadVecI8
  \/ ReadVecI16
  \/ ReadVecI32
  \/ ReadVecI64
  \/ ReadVecF32
  \/ ReadVecF64
  \/ ReadVecString

Next ==
  \/ WriteU8
  \/ WriteU16
  \/ WriteU32
  \/ WriteU64
  \/ WriteI8
  \/ WriteI16
  \/ WriteI32
  \/ WriteI64
  \/ WriteF32
  \/ WriteF64
  \/ WriteBool
  \/ WriteString
  \/ WriteVecU8
  \/ WriteVecU16
  \/ WriteVecU32
  \/ WriteVecU64
  \/ WriteVecI8
  \/ WriteVecI16
  \/ WriteVecI32
  \/ WriteVecI64
  \/ WriteVecF32
  \/ WriteVecF64
  \/ WriteVecString
  \/ GetData
  \/ NewReader
  \/ ReadU8
  \/ ReadU16
  \/ ReadU32
  \/ ReadU64
  \/ ReadI8
  \/ ReadI16
  \/ ReadI32
  \/ ReadI64
  \/ ReadF32
  \/ ReadF64
  \/ ReadBool
  \/ ReadString
  \/ ReadVecU8
  \/ ReadVecU16
  \/ ReadVecU32
  \/ ReadVecU64
  \/ ReadVecI8
  \/ ReadVecI16
  \/ ReadVecI32
  \/ ReadVecI64
  \/ ReadVecF32
  \/ ReadVecF64
  \/ ReadVecString

\* a writer, then a reader over its buffer
Spec == Init /\ [][Next]_vars

\* a reader over arbitrary bytes
SpecR == InitR /\ [][NextR]_vars

-----------------------------------------------------------------------------
(* The wire format as the specification states it (section 6), used to     *)
(* state the properties below.                                             *)

PrimKinds == {"u8", "u16", "u32", "u64", "i8", "i16", "i32", "i64", "f32", "f64", "bool"}

ElemOf ==
  [vec_u8 |-> "u8", vec_u16 |-> "u16", vec_u32 |-> "u32", vec_u64 |-> "u64",
   vec_i8 |-> "i8", vec_i16 |-> "i16", vec_i32 |-> "i32", vec_i64 |-> "i64",
   vec_f32 |-> "f32", vec_f64 |-> "f64", vec_string |-> "string"]

VecKinds == DOMAIN ElemOf

Width(kind) ==
  CASE kind \in {"u8", "i8", "bool"} -> 1
    [] kind \in {"u16", "i16"} -> 2
    [] kind \in {"u32", "i32", "f32"} -> 4
    [] kind \in {"u64", "i64", "f64"} -> 8

\* the number of bytes UTF-8 takes for a text
Utf8Len(s) ==
  LET upto[i \in 0..Len(s)] ==
        IF i = 0 THEN 0
        ELSE upto[i - 1] + (IF s[i] < 128 THEN 1 ELSE IF s[i] < 2048 THEN 2
                            ELSE IF s[i] < 65536 THEN 3 ELSE 4)
  IN  upto[Len(s)]

ElemLen(kind, val) == IF kind = "string" THEN 4 + Utf8Len(val) ELSE Width(kind)

\* the encoded size of a value of a kind
EncodedLen(kind, val) ==
  IF kind \in VecKinds
    THEN LET upto[i \in 0..Len(val)] ==
               IF i = 0 THEN 4 ELSE upto[i - 1] + ElemLen(ElemOf[kind], val[i])
         IN  upto[Len(val)]
    ELSE ElemLen(kind, val)

\* the 16-bit limbs of a value's bit pattern, least significant first
BitLimbs(kind, val) ==
  CASE kind = "u16" -> <<val>>
    [] kind = "i16" -> <<val % 65536>>
    [] kind \in {"u32", "f32", "u64", "f64"} -> val
    [] kind = "i32" -> <<val[1], val[2] % 65536>>
    [] kind = "i64" -> <<val[1], val[2], val[3], val[4] % 65536>>

\* bytes is the fixed-width little-endian encoding of val
LittleEndian(bytes, kind, val) ==
  /\ Len(bytes) = Width(kind)
  /\ CASE kind \in {"u8", "i8"} -> bytes[1] = val % 256
       [] kind = "bool" -> bytes[1] = (IF val THEN 1 ELSE 0)
       [] OTHER -> \A j \in 1..Len(BitLimbs(kind, val)) :
                     bytes[2 * j - 1] + 256 * bytes[2 * j] = BitLimbs(kind, val)[j]

\* the 4 bytes at offset pos hold the little-endian u32 n (n below 65536)
PrefixIs(data, pos, n) ==
  /\ data[pos + 1] + 256 * data[pos + 2] = n
  /\ data[pos + 3] = 0
  /\ data[pos + 4] = 0

\* the u32 at offset pos, as limbs
CountAt(data, pos) ==
  <<data[pos + 1] + 256 * data[pos + 2], data[pos + 3] + 256 * data[pos + 4]>>

\* the offset after the element of a kind that starts at pos, -1 if the buffer
\* ends before the element does
ElemEnd(kind, data, pos) ==
  IF kind = "string"
    THEN IF pos + 4 > Len(data) THEN -1
         ELSE LET c == CountAt(data, pos)
              IN  IF c[2] > 0 \/ pos + 4 + c[1] > Len(data) THEN -1 ELSE pos + 4 + c[1]
    ELSE IF pos + Width(kind) > Len(data) THEN -1 ELSE pos + Width(kind)

\* of n declared elements from pos on: the offset after the leading ones that
\* are whole, and whether all n are
RECURSIVE FitEnd(_, _, _, _)
FitEnd(kind, data, pos, n) ==
  IF n = <<0, 0>> THEN [end |-> pos, all |-> TRUE]
  ELSE LET e == ElemEnd(kind, data, pos)
       IN  IF e < 0 THEN [end |-> pos, all |-> FALSE]
           ELSE FitEnd(kind, data, e, Dec(n))

Remaining(pos) == Len(rdata) - pos

\* the buffer ends before the value that op would decode from offset pos does
Truncated(op, pos) ==
  IF op \in VecKinds
    THEN \/ Remaining(pos) < 4
         \/ ~FitEnd(ElemOf[op], rdata, pos + 4, CountAt(rdata, pos)).all
    ELSE ElemEnd(op, rdata, pos) < 0

HasRead == last.op # "none"

IsTruncation(res) == res.tag = "Err" /\ res.val = "Unexpected end of data"

-----------------------------------------------------------------------------
(* Properties of a reader over arbitrary bytes (SpecR).                    *)

\* C1: for every reader operation, buffer and cursor position: if the bytes
\* remaining are fewer than the operation needs to decode its value, it returns
\* the truncated-input error and the cursor after the call equals the cursor
\* before it (no partial advance).
C1_TruncatedReadLeavesCursor ==
  (HasRead /\ Truncated(last.op, last.pre))
    => (IsTruncation(last.res) /\ cursor = last.pre)

\* C6: 0 <= cursor <= buffer length in every state; no operation decreases the
\* cursor; a read only reads offsets at or after the cursor it started from; a
\* successful read advances the cursor by exactly the encoded size of the value
\* it returned (fixed width, or 4 + payload).
C6_CursorInvariant ==
  /\ 0 <= cursor
  /\ cursor <= Len(rdata)
  /\ HasRead =>
       /\ last.pre <= cursor
       /\ \A o \in last.touched : last.pre <= o /\ o < Len(rdata)
       /\ last.res.tag = "Ok" => cursor = last.pre + EncodedLen(last.op, last.res.val)

\* a text with a payload was read successfully from a cursor that earlier reads
\* had advanced
C6_Witness ==
  /\ last.op = "string"
  /\ last.res.tag = "Ok"
  /\ last.pre > 0
  /\ Len(last.res.val) > 0
  /\ cursor = Len(rdata)

\* C7: every reader operation returns a value or an error and never aborts,
\* except read_bool on a byte that is neither 0 nor 1; read_bool returns false
\* for byte 0 and true for byte 1.
C7_OnlyReadBoolAborts ==
  HasRead =>
    /\ last.res.tag = "Abort" =>
         /\ last.op = "bool"
         /\ rdata[last.pre + 1] \notin {0, 1}
    /\ (last.op = "bool" /\ Remaining(last.pre) >= 1 /\ rdata[last.pre + 1] = 0)
         => last.res = Ok(FALSE)
    /\ (last.op = "bool" /\ Remaining(last.pre) >= 1 /\ rdata[last.pre + 1] = 1)
         => last.res = Ok(TRUE)

\* C8: when read_string finds a length prefix L with at least L bytes after it
\* and those bytes are not valid UTF-8, it returns an error (not the truncation
\* error) and the cursor has advanced by exactly 4 + L.
C8_InvalidTextConsumed ==
  (/\ HasRead
   /\ last.op = "string"
   /\ ElemEnd("string", rdata, last.pre) >= 0
   /\ ~from_utf8(Slice(rdata, last.pre + 4, ElemEnd("string", rdata, last.pre))).ok)
    => /\ last.res.tag = "Err"
       /\ ~IsTruncation(last.res)
       /\ cursor = ElemEnd("string", rdata, last.pre)

\* read_string rejected a non-empty region as invalid UTF-8 and bytes follow it
C8_Witness ==
  /\ last.op = "string"
  /\ last.res = Err("invalid utf-8 sequence")
  /\ cursor > last.pre + 4
  /\ cursor < Len(rdata)

\* where a sequence read that fails for truncation after reading its count
\* leaves the cursor: after the leading whole elements, and after the length
\* prefix of the text element that is cut short when that prefix is whole
CutAt(op, pos) ==
  LET fit == FitEnd(ElemOf[op], rdata, pos + 4, CountAt(rdata, pos))
  IN  IF op = "vec_string" /\ fit.end + 4 <= Len(rdata) THEN fit.end + 4 ELSE fit.end

-----------------------------------------------------------------------------
(* Properties of a writer and of a reader over the writer's buffer (Spec). *)

\* what a fresh writer holds after appending val as a kind
EncodingOf(kind, val) ==
  CASE kind = "u8" -> write_u8(BinaryWriter_new, val)
    [] kind = "u16" -> write_u16(BinaryWriter_new, val)
    [] kind = "u32" -> write_u32(BinaryWriter_new, val)
    [] kind = "u64" -> write_u64(BinaryWriter_new, val)
    [] kind = "i8" -> write_i8(BinaryWriter_new, val)
    [] kind = "i16" -> write_i16(BinaryWriter_new, val)
    [] kind = "i32" -> write_i32(BinaryWriter_new, val)
    [] kind = "i64" -> write_i64(BinaryWriter_new, val)
    [] kind = "f32" -> write_f32(BinaryWriter_new, val)
    [] kind = "f64" -> write_f64(BinaryWriter_new, val)
    [] kind = "bool" -> write_bool(BinaryWriter_new, val)
    [] kind = "string" -> write_string(BinaryWriter_new, val)
    [] kind = "vec_u8" -> write_vec_u8(BinaryWriter_new, val)
    [] kind = "vec_u16" -> write_vec_u16(BinaryWriter_new, val)
    [] kind = "vec_u32" -> write_vec_u32(BinaryWriter_new, val)
    [] kind = "vec_u64" -> write_vec_u64(BinaryWriter_new, val)
    [] kind = "vec_i8" -> write_vec_i8(BinaryWriter_new, val)
    [] kind = "vec_i16" -> write_vec_i16(BinaryWriter_new, val)
    [] kind = "vec_i32" -> write_vec_i32(BinaryWriter_new, val)
    [] kind = "vec_i64" -> write_vec_i64(BinaryWriter_new, val)
    [] kind = "vec_f32" -> write_vec_f32(BinaryWriter_new, val)
    [] kind = "vec_f64" -> write_vec_f64(BinaryWriter_new, val)
    [] kind = "vec_string" -> write_vec_string(BinaryWriter_new, val)

\* the encoded size of the first k values written
CumLen(k) ==
  LET upto[i \in 0..k] ==
        IF i = 0 THEN 0 ELSE upto[i - 1] + EncodedLen(log[i].kind, log[i].val)
  IN  upto[k]

\* C2: for every primitive kind K and value v, a fresh writer that does
\* write_K(v) holds exactly K's width of bytes, v in little-endian order, and a
\* reader over that buffer returns Ok(v) from read_K.
C2_PrimitiveRoundTrip ==
  (Len(log) = 1 /\ log[1].kind \in PrimKinds) =>
    /\ LittleEndian(wdata, log[1].kind, log[1].val)
    /\ nread = 1 => (last.op = log[1].kind /\ last.res = Ok(log[1].val))

\* i64::MIN was written and read back
C2_Witness ==
  /\ Len(log) = 1
  /\ log[1].kind = "i64"
  /\ log[1].val = <<0, 0, 0, -32768>>
  /\ nread = 1
  /\ last.op = "i64"
  /\ last.res.tag = "Ok"

\* C3: for every text s, write_string(s) on a fresh writer leaves a 4-byte
\* little-endian prefix equal to the UTF-8 byte length of s (not its code-point
\* count) followed by exactly those bytes, and read_string returns Ok(s).
C3_TextRoundTrip ==
  (Len(log) = 1 /\ log[1].kind = "string") =>
    /\ Len(wdata) = 4 + Utf8Len(log[1].val)
    /\ PrefixIs(wdata, 0, Utf8Len(log[1].val))
    /\ from_utf8(SubSeq(wdata, 5, Len(wdata))) = [ok |-> TRUE, val |-> log[1].val]
    /\ nread = 1 => (last.op = "string" /\ last.res = Ok(log[1].val))

\* a text of 2 code points and 7 bytes was written and read back
C3_Witness ==
  /\ Len(log) = 1
  /\ log[1].kind = "string"
  /\ log[1].val = <<128640, 10024>>
  /\ PrefixIs(wdata, 0, 7)
  /\ nread = 1
  /\ last.res.tag = "Ok"

\* C4: for every sequence of one kind, write_vec_K on a fresh writer leaves a
\* 4-byte count prefix equal to the number of elements, and read_vec_K over the
\* buffer returns Ok of a sequence of the same length with the same elements in
\* the same order.
C4_SequenceRoundTrip ==
  (Len(log) = 1 /\ log[1].kind \in VecKinds) =>
    /\ PrefixIs(wdata, 0, Len(log[1].val))
    /\ Len(wdata) = EncodedLen(log[1].kind, log[1].val)
    /\ nread = 1 =>
         /\ last.op = log[1].kind
         /\ last.res.tag = "Ok"
         /\ Len(last.res.val) = Len(log[1].val)
         /\ \A i \in 1..Len(log[1].val) : last.res.val[i] = log[1].val[i]

\* a sequence of four texts, one of them empty, was written and read back
C4_Witness ==
  /\ Len(log) = 1
  /\ log[1].kind = "vec_string"
  /\ log[1].val = StringList
  /\ nread = 1
  /\ last.res.tag = "Ok"
  /\ Len(last.res.val) = 4

\* C5: values of mixed kinds written in order by one writer and read back with
\* the same kinds in the same order: the k-th read succeeds with the k-th value,
\* and after it the cursor is the sum of the encoded sizes of the first k
\* values (the buffer length after the last).
C5_SequentialConsistency ==
  (mode = "roundtrip" /\ nread >= 1) =>
    /\ last.op = log[nread].kind
    /\ last.res = Ok(log[nread].val)
    /\ last.pre = CumLen(nread - 1)
    /\ cursor = CumLen(nread)
    /\ nread = Len(log) => cursor = Len(rdata)

\* a text and then a sequence were written, and both read back
C5_Witness ==
  /\ Len(log) = 2
  /\ log[1].kind = "string"
  /\ Len(log[1].val) > 0
  /\ log[2].kind = "vec_i16"
  /\ Len(log[2].val) > 0
  /\ nread = 2
  /\ last.res.tag = "Ok"

\* C10: every append leaves the buffer before the call as an unchanged prefix,
\* grows the buffer by exactly the encoded size of the value, and the new
\* suffix is the value's encoding; the buffer is the concatenation of the
\* encodings of all appended values in call order.
C10_AppendOnly ==
  /\ lastw.kind # "none" =>
       /\ Len(wdata) = Len(lastw.pre) + EncodedLen(lastw.kind, lastw.val)
       /\ SubSeq(wdata, 1, Len(lastw.pre)) = lastw.pre
       /\ SubSeq(wdata, Len(lastw.pre) + 1, Len(wdata)) = EncodingOf(lastw.kind, lastw.val)
  /\ wdata = Flatten([i \in 1..Len(log) |-> EncodingOf(log[i].kind, log[i].val)])

\* a sequence of texts was appended to a buffer that already held a value
C10_Witness ==
  /\ Len(log) = 2
  /\ lastw.kind = "vec_string"
  /\ Len(lastw.val) > 0
  /\ Len(lastw.pre) > 0

====
